---------------------------- MODULE Spec2Model ----------------------------
(***************************************************************************)
(* Model of the two value objects of the back-end tutorial                 *)
(* (docs/Part 02 - BackEnd side/10-project-backend.md):                    *)
(*   EmployeeRegistration  (api/src/domain/value-objects/                  *)
(*                          employee-registration.ts)                      *)
(*   Salary                (api/src/domain/value-objects/salary.ts)        *)
(*                                                                         *)
(* Both classes hold a TypeScript `number`, an IEEE-754 binary64 value,    *)
(* and validate it through Number.prototype.toString.  The model keeps     *)
(* that arithmetic: a number is a sign, an odd integer mantissa and a      *)
(* binary exponent; +, -, * and / round to nearest (ties to even) at 53    *)
(* bits, and ToString produces the shortest decimal string that reads back *)
(* as the same number, in the fixed or exponential layout ECMA-262         *)
(* prescribes.  Infinity, -Infinity and NaN are values of the model; the    *)
(* subnormals are not: no value of the model comes near the lower end of   *)
(* the exponent range.                                                     *)
(***************************************************************************)
EXTENDS Integers, Sequences, FiniteSets, TLC

(***************************************************************************)
(* Natural numbers of any size: little-endian sequences of limbs in        *)
(* 0..Base-1 without a most significant zero limb; <<>> is zero.           *)
(***************************************************************************)
LimbBits == 15

Base == 2^LimbBits

\* the element of a one-element set; The({F(v) : v \in {e}}) is F(e) with e
\* computed once, before F
The(S) == CHOOSE v \in S : TRUE

Max(a, b) == IF a >= b THEN a ELSE b

Min(a, b) == IF a <= b THEN a ELSE b

BLimb(a, i) == IF 1 <= i /\ i <= Len(a) THEN a[i] ELSE 0

Zeros(n) == [i \in 1..n |-> 0]

BTrim(a) ==
    IF \A i \in 1..Len(a) : a[i] = 0 THEN <<>>
    ELSE SubSeq(a, 1, CHOOSE i \in 1..Len(a) :
                          a[i] # 0 /\ \A j \in (i + 1)..Len(a) : a[j] = 0)

\* n < Base^3
BFromInt(n) == BTrim(<<n % Base, (n \div Base) % Base, n \div (Base * Base)>>)

\* a + b; the carry into limb i comes from a limb below that overflows,
\* through limbs that are all Base - 1
BAdd(a, b) ==
    IF a = <<>> THEN b
    ELSE IF b = <<>> THEN a
    ELSE LET g(i)     == BLimb(a, i) + BLimb(b, i)
             carry(i) == IF \E j \in 1..(i - 1) :
                               /\ g(j) >= Base
                               /\ \A k \in (j + 1)..(i - 1) : g(k) = Base - 1
                         THEN 1 ELSE 0
         IN  BTrim([i \in 1..(Max(Len(a), Len(b)) + 1) |-> (g(i) + carry(i)) % Base])

\* a - b for a >= b
BSub(a, b) ==
    IF b = <<>> THEN a
    ELSE LET borrow(i) == IF \E j \in 1..(i - 1) :
                                /\ a[j] < BLimb(b, j)
                                /\ \A k \in (j + 1)..(i - 1) : a[k] = BLimb(b, k)
                          THEN 1 ELSE 0
         IN  BTrim([i \in 1..Len(a) |->
                       (a[i] - BLimb(b, i) - borrow(i) + Base) % Base])

\* -1, 0 or 1 as a < b, a = b or a > b
BCmp(a, b) ==
    IF Len(a) < Len(b) THEN -1
    ELSE IF Len(a) > Len(b) THEN 1
    ELSE IF a = b THEN 0
    ELSE LET top == CHOOSE i \in 1..Len(a) :
                        a[i] # b[i] /\ \A k \in (i + 1)..Len(a) : a[k] = b[k]
         IN  IF a[top] < b[top] THEN -1 ELSE 1

\* a * k for 0 <= k <= Base
BMulSmall(a, k) ==
    IF a = <<>> \/ k = 0 THEN <<>>
    ELSE BAdd([i \in 1..Len(a) |-> (a[i] * k) % Base],
              <<0>> \o [i \in 1..Len(a) |-> (a[i] * k) \div Base])

RECURSIVE BMulFrom(_, _, _)
BMulFrom(a, b, j) ==
    IF j > Len(b) THEN <<>>
    ELSE The({ BAdd(Zeros(j - 1) \o BMulSmall(a, b[j]), rest) :
                  rest \in {BMulFrom(a, b, j + 1)} })

\* a * b, one partial product per limb of the shorter factor
BMul(a, b) ==
    IF a = <<>> \/ b = <<>> THEN <<>> ELSE
    BMulFrom(IF Len(a) >= Len(b) THEN a ELSE b, IF Len(a) >= Len(b) THEN b ELSE a, 1)

\* a * 2^n
BShl(a, n) ==
    IF a = <<>> THEN <<>>
    ELSE Zeros(n \div LimbBits) \o BMulSmall(a, 2^(n % LimbBits))

\* floor(a / 2^n)
BShr(a, n) ==
    LET l == n \div LimbBits
        s == n % LimbBits
    IN  IF a = <<>> THEN <<>> ELSE
        BTrim([i \in 1..(Len(a) - l) |->
                  (a[i + l] \div 2^s) + (BLimb(a, i + l + 1) % 2^s) * 2^(LimbBits - s)])

\* the number of bits of n < Base
IntBitLen(n) == CHOOSE k \in 0..LimbBits : n < 2^k /\ (k = 0 \/ n >= 2^(k - 1))

BBitLen(a) ==
    IF a = <<>> THEN 0 ELSE LimbBits * (Len(a) - 1) + IntBitLen(a[Len(a)])

BIsOdd(a) == a # <<>> /\ a[1] % 2 = 1

\* the number of low zero bits of a > 0
BTrailingZeros(a) ==
    LET low == CHOOSE i \in 1..Len(a) : a[i] # 0 /\ \A k \in 1..(i - 1) : a[k] = 0
    IN  LimbBits * (low - 1)
          + (CHOOSE k \in 0..LimbBits : a[low] % 2^k = 0 /\ a[low] % 2^(k + 1) # 0)

RECURSIVE BRemFrom(_, _, _)
\* the limbs i.. of a, as a number, modulo d
BRemFrom(a, d, i) ==
    IF i > Len(a) THEN 0 ELSE (BRemFrom(a, d, i + 1) * Base + a[i]) % d

\* quotient and remainder of a by d, for 0 < d <= 2 * Base
BDivSmall(a, d) ==
    [q |-> BTrim([i \in 1..Len(a) |-> (BRemFrom(a, d, i + 1) * Base + a[i]) \div d]),
     r |-> BRemFrom(a, d, 1)]

RECURSIVE BPow10(_)
\* 10^n
BPow10(n) ==
    IF n <= 9 THEN BFromInt(10^n)
    ELSE The({ BMul(p, BFromInt(10^9)) : p \in {BPow10(n - 9)} })

RECURSIVE BDivPow10(_, _)
\* floor(a / 10^n), and r # 0 exactly when the division left a remainder
BDivPow10(a, n) ==
    IF n = 0 THEN [q |-> a, r |-> 0]
    ELSE The({ The({ [q |-> rest.q, r |-> IF rest.r # 0 \/ one.r # 0 THEN 1 ELSE 0] :
                       rest \in {BDivPow10(one.q, n - Min(n, 4))} }) :
                  one \in {BDivSmall(a, 10^Min(n, 4))} })

(***************************************************************************)
(* The number type: [neg, m, e] is (-1)^neg * m * 2^e with m odd, and      *)
(* [neg, <<>>, 0] is zero.  One value has one record, so = on records is   *)
(* === on numbers except for the two zeros, which NumEq equates, and for   *)
(* NaN, which NumEq equates with nothing.  Infinity is the record of       *)
(* 2^1024, the least power of two that no finite number reaches, and NaN   *)
(* is the record [FALSE, <<>>, 1], which denotes no number.                *)
(***************************************************************************)
Precision == 52 + 1

InfinityExponent == 1023 + 1

Zero == [neg |-> FALSE, m |-> <<>>, e |-> 0]

Infinity(neg) == [neg |-> neg, m |-> <<1>>, e |-> InfinityExponent]

PositiveInfinity == Infinity(FALSE)

NaN == [neg |-> FALSE, m |-> <<>>, e |-> 1]

IsNaN(x) == x = NaN

IsInfinite(x) == x.m = <<1>> /\ x.e = InfinityExponent

\* Number.isFinite(x)
IsFinite(x) == ~IsNaN(x) /\ ~IsInfinite(x)

\* a result of 2^1024 or more is Infinity
Canon(neg, m, e) ==
    IF m = <<>> THEN [neg |-> neg, m |-> <<>>, e |-> 0]
    ELSE IF BBitLen(m) + e > InfinityExponent THEN Infinity(neg)
    ELSE [neg |-> neg, m |-> BShr(m, BTrailingZeros(m)), e |-> e + BTrailingZeros(m)]

\* hi, or hi + 1 when the bits cut off below hi exceed half a unit of hi
\* (c > 0), or are half a unit (c = 0) and hi is odd or more follows
RoundHalfEven(neg, hi, c, sticky, e) ==
    Canon(neg,
          IF c > 0 \/ (c = 0 /\ (sticky \/ BIsOdd(hi))) THEN BAdd(hi, <<1>>) ELSE hi,
          e)

\* The number nearest to (-1)^neg * (N + f) * 2^e, where 0 <= f < 1 and f > 0
\* exactly when sticky; ties go to the even mantissa.  A sticky N carries at
\* least Precision + 2 bits.
RoundToNumber(neg, N, sticky, e) ==
    IF BBitLen(N) <= Precision THEN Canon(neg, N, e)
    ELSE LET x == BBitLen(N) - Precision
         IN  The({ RoundHalfEven(neg, hi,
                                 BCmp(BSub(N, BShl(hi, x)), BShl(<<1>>, x - 1)),
                                 sticky, e + x) : hi \in {BShr(N, x)} })

\* the number nearest to (quotient qr.q, remainder qr.r) * 2^e
RoundQuotient(neg, qr, e) == RoundToNumber(neg, qr.q, qr.r # 0, e)

\* The number the decimal S * 10^q denotes, S a natural number.
NumberOfDecimal(neg, S, q) ==
    IF S = <<>> THEN [neg |-> neg, m |-> <<>>, e |-> 0]
    ELSE IF q >= 0 THEN RoundToNumber(neg, BMul(S, BPow10(q)), FALSE, 0)
    ELSE RoundQuotient(neg,
                       BDivPow10(BShl(S, Precision + 2 + 4 * (-q)), -q),
                       -(Precision + 2 + 4 * (-q)))

\* The number a decimal literal s * 10^q (0 <= s < 2^31) denotes in the
\* source text or in a JSON body.
FromDecimal(neg, s, q) == NumberOfDecimal(neg, BFromInt(s), q)

Negate(x) == IF IsNaN(x) THEN NaN ELSE [x EXCEPT !.neg = ~x.neg]

IsZero(x) == x.m = <<>> /\ x.e = 0

\* -1, 0, 1: the order of the magnitudes of x and y
CmpMagnitude(x, y) ==
    IF IsZero(x) \/ IsZero(y)
    THEN (IF IsZero(x) /\ IsZero(y) THEN 0 ELSE IF IsZero(x) THEN -1 ELSE 1)
    ELSE BCmp(BShl(x.m, x.e - Min(x.e, y.e)), BShl(y.m, y.e - Min(x.e, y.e)))

\* x < y
NumLt(x, y) ==
    IF IsNaN(x) \/ IsNaN(y) THEN FALSE
    ELSE IF IsZero(x) /\ IsZero(y) THEN FALSE
    ELSE IF x.neg /\ ~y.neg /\ ~IsZero(x) THEN TRUE
    ELSE IF IsZero(x) THEN ~y.neg
    ELSE IF IsZero(y) THEN x.neg
    ELSE IF x.neg # y.neg THEN x.neg
    ELSE CmpMagnitude(x, y) = (IF x.neg THEN 1 ELSE -1)

\* x === y
NumEq(x, y) == ~IsNaN(x) /\ ~IsNaN(y) /\ ((IsZero(x) /\ IsZero(y)) \/ x = y)

\* x <= y
NumLe(x, y) == NumEq(x, y) \/ NumLt(x, y)

\* x > y
NumGt(x, y) == NumLt(y, x)

\* the sum of (-1)^xneg * X * 2^e and (-1)^yneg * Y * 2^e, c the order of X, Y
AddAligned(xneg, yneg, X, Y, c, e) ==
    IF xneg # yneg /\ c = 0 THEN Zero
    ELSE RoundToNumber(IF xneg = yneg \/ c > 0 THEN xneg ELSE yneg,
                       IF xneg = yneg THEN BAdd(X, Y)
                       ELSE IF c > 0 THEN BSub(X, Y) ELSE BSub(Y, X),
                       FALSE, e)

\* x + y
NumAdd(x, y) ==
    IF IsNaN(x) \/ IsNaN(y) THEN NaN
    ELSE IF IsInfinite(x) THEN (IF IsInfinite(y) /\ x.neg # y.neg THEN NaN ELSE x)
    ELSE IF IsInfinite(y) THEN y
    ELSE IF IsZero(x) THEN (IF IsZero(y) THEN [y EXCEPT !.neg = x.neg /\ y.neg] ELSE y)
    ELSE IF IsZero(y) THEN x
    ELSE The({ AddAligned(x.neg, y.neg, X, Y, BCmp(X, Y), Min(x.e, y.e)) :
                  X \in {BShl(x.m, x.e - Min(x.e, y.e))},
                  Y \in {BShl(y.m, y.e - Min(x.e, y.e))} })

\* x - y
NumSub(x, y) == NumAdd(x, Negate(y))

\* x * y
NumMul(x, y) ==
    IF IsNaN(x) \/ IsNaN(y) THEN NaN
    ELSE IF IsInfinite(x) \/ IsInfinite(y)
    THEN (IF IsZero(x) \/ IsZero(y) THEN NaN ELSE Infinity(x.neg # y.neg))
    ELSE IF IsZero(x) \/ IsZero(y) THEN [neg |-> x.neg # y.neg, m |-> <<>>, e |-> 0]
    ELSE RoundToNumber(x.neg # y.neg, BMul(x.m, y.m), FALSE, x.e + y.e)

\* x / y, for a finite divisor whose mantissa is one limb (the code divides
\* by 100)
NumDiv(x, y) ==
    IF IsNaN(x) THEN NaN
    ELSE IF IsInfinite(x) THEN Infinity(x.neg # y.neg)
    ELSE IF IsZero(x) THEN [neg |-> x.neg # y.neg, m |-> <<>>, e |-> 0]
    ELSE RoundQuotient(x.neg # y.neg,
                       BDivSmall(BShl(x.m, Precision + 2 + LimbBits), y.m[1]),
                       x.e - (Precision + 2 + LimbBits) - y.e)

(***************************************************************************)
(* Number.prototype.toString (ECMA-262, Number::toString, radix 10).       *)
(* The digits are those of the integer s with the fewest digits k such     *)
(* that s * 10^(n-k) reads back as x; the layout depends on n.  A string   *)
(* is a sequence of one-character strings.                                  *)
(*                                                                         *)
(* Whether a multiple of 10^q reads back as x > 0 is decided on integers:  *)
(* with sh = Precision + 2 - (bits of x.m), x is x.m * 2^sh quarters of    *)
(* its unit in the last place, the reals that round to x reach 2 quarters  *)
(* above it and 2 below (1 below a power of two), the ends included when   *)
(* the 53-bit mantissa is even.  Everything is scaled by 10^max(0,-q) and   *)
(* by 2^max(0, x.e - sh) so that 10^q is an integer T of these units.      *)
(***************************************************************************)

\* |V - X|
BAbsDiff(V, X) == IF BCmp(V, X) >= 0 THEN BSub(V, X) ELSE BSub(X, V)

\* [r, ok]: g is the order of |V - X| and the reach of x's interval
MultipleResult(r, g, even) ==
    [r |-> r, ok |-> r # <<>> /\ (g < 0 \/ (g = 0 /\ even))]

\* V = r * T, sc the scale of a quarter unit
MultipleInInterval(x, X, sc, r, V) ==
    The({ MultipleResult(r, g, BBitLen(x.m) < Precision) :
             g \in {BCmp(BAbsDiff(V, X),
                         IF BCmp(V, X) > 0 \/ x.m # <<1>> THEN BShl(sc, 1) ELSE sc)} })

\* r: the integer nearest to X / T, T = 10^u * 2^k2
MultipleOfUnit(x, X, sc, r, u, k2) ==
    The({ MultipleInInterval(x, X, sc, r, V) :
             V \in {BShl(BMul(r, BPow10(u)), k2)} })

NearestToScaled(x, X, sc, u, k2) ==
    The({ MultipleOfUnit(x, X, sc, r, u, k2) :
             r \in {BShr(BDivPow10(BAdd(BShl(X, 1), BShl(BPow10(u), k2)), u).q,
                         k2 + 1)} })

NearestAtShift(x, q, sh) ==
    The({ NearestToScaled(x, X, sc, Max(0, q), Max(0, sh - x.e)) :
             X  \in {BMul(BShl(x.m, sh + Max(0, x.e - sh)), BPow10(Max(0, -q)))},
             sc \in {BShl(BPow10(Max(0, -q)), Max(0, x.e - sh))} })

\* [r, ok]: r * 10^q is the multiple of 10^q nearest to x > 0, and ok says
\* whether it reads back as x
NearestMultiple(x, q) == NearestAtShift(x, q, Precision + 2 - BBitLen(x.m))

\* an exponent q with 10^q > x, for x > 0
Log10Upper(x) == ((BBitLen(x.m) + x.e) * 30103) \div 100000 + 1

\* the number of decimal digits of r > 0
DecimalLength(r) ==
    CHOOSE k \in 1..25 : BCmp(r, BPow10(k)) < 0 /\ BCmp(r, BPow10(k - 1)) >= 0

DigitsOfLength(r, k) == [i \in 1..k |-> BDivSmall(BDivPow10(r, k - i).q, 10).r]

\* the decimal digits of r > 0, most significant first
DecimalDigits(r) == DigitsOfLength(r, DecimalLength(r))

LastNonZero(ds) ==
    CHOOSE i \in 1..Len(ds) : ds[i] # 0 /\ \A j \in (i + 1)..Len(ds) : ds[j] = 0

\* all: the digits of the multiple of 10^q that reads back
Significant(all, q) ==
    [digits |-> SubSeq(all, 1, LastNonZero(all)), n |-> Len(all) + q]

DigitsOfMultiple(x, q) ==
    The({ Significant(all, q) : all \in {DecimalDigits(NearestMultiple(x, q).r)} })

\* the largest q, counted down from top, whose nearest multiple reads back:
\* once one does, every finer one does
DigitsBelow(x, top) ==
    The({ DigitsOfMultiple(x, top - j) :
             j \in {CHOOSE j \in 0..25 :
                       /\ NearestMultiple(x, top - j).ok
                       /\ j = 0 \/ ~NearestMultiple(x, top - j + 1).ok} })

\* [digits, n]: the digits of s and the n of the standard's (n, k, s), x > 0
ShortestDigits(x) == DigitsBelow(x, Log10Upper(x))

DigitChar(d) == <<"0", "1", "2", "3", "4", "5", "6", "7", "8", "9">>[d + 1]

DigitChars(ds) == [i \in 1..Len(ds) |-> DigitChar(ds[i])]

Repeat(c, n) == [i \in 1..n |-> c]

\* the decimal digits of an exponent 0 <= v < 1000
ExponentChars(v) ==
    IF v < 10 THEN <<DigitChar(v)>>
    ELSE IF v < 100 THEN <<DigitChar(v \div 10), DigitChar(v % 10)>>
    ELSE <<DigitChar(v \div 100), DigitChar((v \div 10) % 10), DigitChar(v % 10)>>

\* the string of the digits ds (k of them) and n
Layout(ds, k, n) ==
    IF k <= n /\ n <= 21 THEN ds \o Repeat("0", n - k)
    ELSE IF 0 < n /\ n <= 21
    THEN SubSeq(ds, 1, n) \o <<".">> \o SubSeq(ds, n + 1, k)
    ELSE IF -6 < n /\ n <= 0 THEN <<"0", ".">> \o Repeat("0", -n) \o ds
    ELSE (IF k = 1 THEN ds ELSE <<ds[1], ".">> \o SubSeq(ds, 2, k))
         \o <<"e", IF n - 1 < 0 THEN "-" ELSE "+">>
         \o ExponentChars(IF n - 1 < 0 THEN 1 - n ELSE n - 1)

LayoutOf(sd) == Layout(DigitChars(sd.digits), Len(sd.digits), sd.n)

\* x.toString()
NumberToString(x) ==
    IF IsNaN(x) THEN <<"N", "a", "N">>
    ELSE IF IsInfinite(x)
    THEN (IF x.neg THEN <<"-">> ELSE <<>>) \o <<"I", "n", "f", "i", "n", "i", "t", "y">>
    ELSE IF IsZero(x) THEN <<"0">>
    ELSE (IF x.neg THEN <<"-">> ELSE <<>>)
         \o The({ LayoutOf(sd) : sd \in {ShortestDigits([x EXCEPT !.neg = FALSE])} })

\* Number.isInteger(x)
IsInteger(x) == IsFinite(x) /\ (IsZero(x) \/ x.e >= 0)

\* s.split('.')[1]?.length || 0: the length of the piece between the first
\* '.' of s and the next one, 0 when s has no '.'
SecondPieceLength(s) ==
    LET dots == {i \in 1..Len(s) : s[i] = "."}
    IN  IF dots = {} THEN 0
        ELSE LET first == CHOOSE i \in dots : \A j \in dots : i <= j
                 after == {j \in dots : j > first}
                 stop  == IF after = {} THEN Len(s) + 1
                          ELSE CHOOSE i \in after : \A j \in after : i <= j
             IN  stop - first - 1

(***************************************************************************)
(* The messages of the Errors the two classes throw.                       *)
(***************************************************************************)
NoError == "none"

NoObject == [class |-> "none"]

RegistrationNotPositive ==
    "Employee registration must be greater than 0 and not negative"

RegistrationBadLength == "Employee registration must be between 5 and 6 digits"

RegistrationNotInteger == "Employee registration must be an integer number"

SalaryNegative == "Salary cannot be negative"

SalaryZero == "Salary cannot be zero"

SalaryTooPrecise == "Salary must have a maximum of 2 decimal places"

AdjustmentNegative == "Adjustment must be greater than zero"

AdjustmentTooPrecise == "Adjustment must have a maximum of 2 decimal places"

PercentageNotPositive == "Percentage must be greater than zero"

PercentageOutOfRange == "Percentage cannot be greater than 100"

\* the literals 0 and 100 of the code
Hundred == FromDecimal(FALSE, 100, 0)

(***************************************************************************)
(* EmployeeRegistration                                                    *)
(***************************************************************************)

\* validateRegistrationNumber with the upper limit of the length one too low
validateRegistrationNumberShort(registrationNumber) ==
    IF NumLe(registrationNumber, Zero) THEN RegistrationNotPositive
    ELSE LET registrationNumberString == NumberToString(registrationNumber)
         IN  IF Len(registrationNumberString) < 5 \/ Len(registrationNumberString) > 5
             THEN RegistrationBadLength
             ELSE IF ~IsInteger(registrationNumber) THEN RegistrationNotInteger
             ELSE NoError

\* validateRegistrationNumber with the integer check moved before the
\* length check
validateRegistrationNumberIntegerFirst(registrationNumber) ==
    IF NumLe(registrationNumber, Zero) THEN RegistrationNotPositive
    ELSE IF ~IsInteger(registrationNumber) THEN RegistrationNotInteger
    ELSE LET registrationNumberString == NumberToString(registrationNumber)
         IN  IF Len(registrationNumberString) < 5 \/ Len(registrationNumberString) > 6
             THEN RegistrationBadLength
             ELSE NoError

\* validateRegistrationNumber with the length check (line 373) moved before
\* the positivity check (line 365)
validateRegistrationNumberLengthFirst(registrationNumber) ==
    LET registrationNumberString == NumberToString(registrationNumber)
    IN  IF Len(registrationNumberString) < 5 \/ Len(registrationNumberString) > 6
        THEN RegistrationBadLength
        ELSE IF NumLe(registrationNumber, Zero) THEN RegistrationNotPositive
        ELSE IF ~IsInteger(registrationNumber) THEN RegistrationNotInteger
        ELSE NoError

\* the message validateRegistrationNumber throws, NoError when it returns
validateRegistrationNumber(registrationNumber) ==
    IF NumLe(registrationNumber, Zero) THEN RegistrationNotPositive
    ELSE LET registrationNumberString == NumberToString(registrationNumber)
         IN  IF Len(registrationNumberString) < 5 \/ Len(registrationNumberString) > 6
             THEN RegistrationBadLength
             ELSE IF ~IsInteger(registrationNumber) THEN RegistrationNotInteger
             ELSE NoError

getValue(registration) == registration.registrationNumber

registrationToJSON(registration) == registration.registrationNumber

registrationIsEqualTo(registration, otherRegistration) ==
    NumEq(registration.registrationNumber, getValue(otherRegistration))

(***************************************************************************)
(* Salary                                                                  *)
(***************************************************************************)

\* the message validateAmount throws, NoError when it returns
validateAmount(amount) ==
    IF NumLt(amount, Zero) THEN SalaryNegative
    ELSE IF NumEq(amount, Zero) THEN SalaryZero
    ELSE LET decimalPlaces == SecondPieceLength(NumberToString(amount))
         IN  IF decimalPlaces > 2 THEN SalaryTooPrecise ELSE NoError

\* the message validateAdjustment throws, NoError when it returns
validateAdjustment(adjustment) ==
    IF NumLt(adjustment, Zero) THEN AdjustmentNegative
    ELSE LET decimalPlaces == SecondPieceLength(NumberToString(adjustment))
         IN  IF decimalPlaces > 2 THEN AdjustmentTooPrecise ELSE NoError

getAmount(salary) == salary.amount

salaryToJSON(salary) == salary.amount

salaryIsEqualTo(salary, otherSalary) == NumEq(salary.amount, getAmount(otherSalary))

\* statement sequencing: what follows a validation runs only if nothing was
\* thrown
Then(thrown, rest) ==
    IF thrown # NoError THEN [thrown |-> thrown, object |-> NoObject] ELSE rest

\* new Salary(amount): the message thrown, or the new object
SalaryConstructor(amount) ==
    Then(validateAmount(amount),
         [thrown |-> NoError, object |-> [class |-> "Salary", amount |-> amount]])

\* new EmployeeRegistration(registrationNumber)
EmployeeRegistrationConstructor(registrationNumber) ==
    Then(validateRegistrationNumber(registrationNumber),
         [thrown |-> NoError,
          object |-> [class |-> "EmployeeRegistration",
                      registrationNumber |-> registrationNumber]])

addAmount(this, adjustment) ==
    Then(validateAmount(adjustment),
         SalaryConstructor(NumAdd(this.amount, adjustment)))

subtractAmount(this, adjustment) ==
    Then(validateAdjustment(adjustment),
         LET newAmount == NumSub(this.amount, adjustment)
         IN  Then(IF NumLt(newAmount, Zero) THEN SalaryNegative ELSE NoError,
                  SalaryConstructor(newAmount)))

\* increaseByPercentage with the increase subtracted
increaseByPercentageSubtracting(this, percentage) ==
    Then(IF NumLe(percentage, Zero) THEN PercentageNotPositive ELSE NoError,
         Then(IF NumGt(percentage, Hundred) THEN PercentageOutOfRange ELSE NoError,
              LET increaseAmount == NumMul(this.amount, NumDiv(percentage, Hundred))
              IN  SalaryConstructor(NumSub(this.amount, increaseAmount))))

increaseByPercentage(this, percentage) ==
    Then(IF NumLe(percentage, Zero) THEN PercentageNotPositive ELSE NoError,
         Then(IF NumGt(percentage, Hundred) THEN PercentageOutOfRange ELSE NoError,
              LET increaseAmount == NumMul(this.amount, NumDiv(percentage, Hundred))
              IN  SalaryConstructor(NumAdd(this.amount, increaseAmount))))

(***************************************************************************)
(* The callers' inputs: the numbers the scenarios of the documentation and *)
(* the boundaries of every check call for.                                 *)
(***************************************************************************)
RegistrationNumbers ==
    { FromDecimal(TRUE, 5, 0), Zero, FromDecimal(TRUE, 15, -1),
      FromDecimal(FALSE, 5, -1), FromDecimal(FALSE, 1234, 0),
      FromDecimal(FALSE, 12345, -1), FromDecimal(FALSE, 10000, 0),
      FromDecimal(FALSE, 12345, 0), FromDecimal(FALSE, 1234565, -1),
      FromDecimal(FALSE, 99999, 0), FromDecimal(FALSE, 100000, 0),
      FromDecimal(FALSE, 999999, 0), FromDecimal(FALSE, 1000000, 0),
      FromDecimal(FALSE, 1, 21), PositiveInfinity, NaN }

Amounts ==
    { FromDecimal(TRUE, 5, 0), FromDecimal(TRUE, 10555, -3), Zero,
      FromDecimal(FALSE, 10555, -3), FromDecimal(FALSE, 1, -7),
      FromDecimal(FALSE, 1, -2), FromDecimal(FALSE, 1, -1),
      FromDecimal(FALSE, 3, -1), FromDecimal(FALSE, 1, 0),
      FromDecimal(FALSE, 1000, 0), FromDecimal(FALSE, 5000, 0),
      FromDecimal(FALSE, 15, 20), PositiveInfinity, NaN }

Adjustments ==
    { FromDecimal(TRUE, 5, 0), Zero, FromDecimal(FALSE, 10555, -3),
      FromDecimal(FALSE, 1, -7), FromDecimal(FALSE, 1, -1),
      FromDecimal(FALSE, 2, -1), FromDecimal(FALSE, 1000, 0),
      FromDecimal(FALSE, 5000, 0), PositiveInfinity }

Percentages ==
    { FromDecimal(TRUE, 1, 0), Zero, FromDecimal(FALSE, 10, 0),
      FromDecimal(FALSE, 100, 0), FromDecimal(FALSE, 101, 0),
      FromDecimal(FALSE, 1, -14) }

\* the objects a run may allocate
MaxObjects == 2

(***************************************************************************)
(* State: the heap of value objects, in allocation order, and the last     *)
(* call with what it threw or returned.  A caller runs straight-line code  *)
(* (lines 521-525): an Error that is thrown ends the run.                  *)
(***************************************************************************)
VARIABLES heap, call

vars == <<heap, call>>

NoCall == [op |-> "none", this |-> 0, arg |-> Zero, thrown |-> NoError, returned |-> 0]

Init == heap = <<>> /\ call = NoCall

Running == call.thrown = NoError /\ Len(heap) < MaxObjects

\* Complete with a method's result written over its receiver, as a method
\* that assigned this.amount and returned this would leave the heap
CompleteInPlace(op, this, arg, outcome) ==
    IF outcome.thrown # NoError
    THEN /\ call' = [op |-> op, this |-> this, arg |-> arg,
                     thrown |-> outcome.thrown, returned |-> 0]
         /\ UNCHANGED heap
    ELSE IF this = 0
    THEN /\ heap' = Append(heap, outcome.object)
         /\ call' = [op |-> op, this |-> this, arg |-> arg,
                     thrown |-> NoError, returned |-> Len(heap) + 1]
    ELSE /\ heap' = [heap EXCEPT ![this] = outcome.object]
         /\ call' = [op |-> op, this |-> this, arg |-> arg,
                     thrown |-> NoError, returned |-> this]

\* the effect of a call that throws, or returns a newly built object
Complete(op, this, arg, outcome) ==
    IF outcome.thrown # NoError
    THEN /\ call' = [op |-> op, this |-> this, arg |-> arg,
                     thrown |-> outcome.thrown, returned |-> 0]
         /\ UNCHANGED heap
    ELSE /\ heap' = Append(heap, outcome.object)
         /\ call' = [op |-> op, this |-> this, arg |-> arg,
                     thrown |-> NoError, returned |-> Len(heap) + 1]

Salaries == {i \in DOMAIN heap : heap[i].class = "Salary"}

NewEmployeeRegistration ==
    /\ Running
    /\ \E n \in RegistrationNumbers :
          Complete("new EmployeeRegistration", 0, n, EmployeeRegistrationConstructor(n))

NewSalary ==
    /\ Running
    /\ \E a \in Amounts : Complete("new Salary", 0, a, SalaryConstructor(a))

AddAmount ==
    /\ Running
    /\ \E i \in Salaries, d \in Adjustments :
          Complete("addAmount", i, d, addAmount(heap[i], d))

SubtractAmount ==
    /\ Running
    /\ \E i \in Salaries, d \in Adjustments :
          Complete("subtractAmount", i, d, subtractAmount(heap[i], d))

IncreaseByPercentage ==
    /\ Running
    /\ \E i \in Salaries, p \in Percentages :
          Complete("increaseByPercentage", i, p, increaseByPercentage(heap[i], p))

Next ==
    \/ NewEmployeeRegistration
    \/ NewSalary
    \/ AddAmount
    \/ SubtractAmount
    \/ IncreaseByPercentage

Spec == Init /\ [][Next]_vars

(***************************************************************************)
(* The decimal a finite number stands for: the one its string shows.       *)
(* Infinity and NaN stand for no decimal.                                  *)
(***************************************************************************)

\* [r, q]: the finite x > 0 is shown as the decimal r * 10^q, r without a final zero
DecimalOf(x) ==
    LET sd == ShortestDigits(x)
        q  == sd.n - Len(sd.digits)
    IN  [r |-> NearestMultiple(x, q).r, q |-> q]

\* the decimal of x >= 0 in units of 10^q, for q at most its exponent
InUnits(x, q) ==
    IF IsZero(x) \/ ~IsFinite(x) THEN <<>>
    ELSE BMul(DecimalOf(x).r, BPow10(DecimalOf(x).q - q))

\* the exponent of the decimal of x >= 0
ExponentOf(x) == IF IsZero(x) \/ ~IsFinite(x) THEN 0 ELSE DecimalOf(x).q

\* the number of digits after the decimal point of the decimal of x
FractionDigits(x) ==
    IF IsZero(x) \/ ~IsFinite(x) THEN 0 ELSE Max(0, -ExponentOf([x EXCEPT !.neg = FALSE]))

\* the number of digits of the integer x > 0
IntegerDigits(x) == ShortestDigits(x).n

\* as decimals, z = x + y (all >= 0)
DecimalSumIs(z, x, y) ==
    /\ IsFinite(z) /\ IsFinite(x) /\ IsFinite(y)
    /\ LET q == Min(ExponentOf(z), Min(ExponentOf(x), ExponentOf(y)))
       IN  InUnits(z, q) = BAdd(InUnits(x, q), InUnits(y, q))

\* as decimals, z = a + a * p / 100 (all > 0), compared in units of
\* 10^q after multiplying by 100
DecimalIncreaseIs(z, a, p) ==
    /\ IsFinite(z) /\ IsFinite(a) /\ IsFinite(p)
    /\ LET q == Min(ExponentOf(z) + 2, Min(ExponentOf(a) + 2, ExponentOf(a) + ExponentOf(p)))
       IN  BMul(DecimalOf(z).r, BPow10(ExponentOf(z) + 2 - q))
          = BAdd(BMul(DecimalOf(a).r, BPow10(ExponentOf(a) + 2 - q)),
                 BMul(BMul(DecimalOf(a).r, DecimalOf(p).r),
                      BPow10(ExponentOf(a) + ExponentOf(p) - q)))

\* the object the last call returned, and the one it was made on
Returned == heap[call.returned]

Receiver == heap[call.this]

\* the last call returned an object it built
ReturnedNew(class) ==
    /\ call.thrown = NoError
    /\ call.returned = Len(heap)
    /\ Returned.class = class

(***************************************************************************)
(* Claims                                                                  *)
(***************************************************************************)

\* C1: every Salary instance reachable by create, add, subtract and
\* increaseByPercentage holds an amount that is strictly positive and has
\* at most 2 fractional digits (an operation whose result would not, fails
\* instead of returning an instance).
C1_EverySalaryIsValid ==
    \A i \in Salaries :
        /\ NumGt(heap[i].amount, Zero)
        /\ FractionDigits(heap[i].amount) <= 2

\* C2: for every integer n with 10000 <= n <= 999999, new
\* EmployeeRegistration(n) succeeds and getValue() and toJSON() of the
\* result both return n.
C2_CreateInRangeSucceeds ==
    ( /\ call.op = "new EmployeeRegistration"
      /\ IsInteger(call.arg)
      /\ NumLe(FromDecimal(FALSE, 10000, 0), call.arg)
      /\ NumLe(call.arg, FromDecimal(FALSE, 999999, 0)) )
    => /\ ReturnedNew("EmployeeRegistration")
       /\ NumEq(getValue(Returned), call.arg)
       /\ NumEq(registrationToJSON(Returned), call.arg)

\* new EmployeeRegistration(12345) returned an object whose value is 12345
C2_Created12345 ==
    /\ call.op = "new EmployeeRegistration"
    /\ call.arg = FromDecimal(FALSE, 12345, 0)
    /\ ReturnedNew("EmployeeRegistration")
    /\ getValue(Returned) = FromDecimal(FALSE, 12345, 0)

\* C3: for every integer n, new EmployeeRegistration(n) fails with the
\* not-positive error when n <= 0 and with the length error when n > 0 has
\* fewer than 5 or more than 6 decimal digits.
C3_IntegersOutOfRangeFail ==
    (call.op = "new EmployeeRegistration" /\ IsInteger(call.arg))
    => /\ NumLe(call.arg, Zero) => call.thrown = RegistrationNotPositive
       /\ (NumGt(call.arg, Zero) /\ IntegerDigits(call.arg) \notin 5..6)
             => call.thrown = RegistrationBadLength

\* C4 as stated: for every number with a fractional component, new
\* EmployeeRegistration fails with the not-an-integer error, whatever the
\* length of the value.
C4_FractionsFailNotInteger ==
    (call.op = "new EmployeeRegistration" /\ ~IsInteger(call.arg))
    => call.thrown = RegistrationNotInteger

\* C4 as amended: for every number with a fractional component, new
\* EmployeeRegistration fails, and the checks that come first decide the
\* error: not-positive when the number is <= 0, else the length error when
\* its string (sign, digits and point) has fewer than 5 or more than 6
\* characters, and the not-an-integer error only otherwise.
C4_FractionsFailByFirstCheck ==
    (call.op = "new EmployeeRegistration" /\ ~IsInteger(call.arg))
    => call.thrown =
          IF NumLe(call.arg, Zero) THEN RegistrationNotPositive
          ELSE IF Len(NumberToString(call.arg)) \notin 5..6 THEN RegistrationBadLength
          ELSE RegistrationNotInteger

\* new EmployeeRegistration(123456.5) failed with the length error
C4_LongFractionFailedOnLength ==
    /\ call.op = "new EmployeeRegistration"
    /\ call.arg = FromDecimal(FALSE, 1234565, -1)
    /\ call.thrown = RegistrationBadLength

\* C5: for every a > 0 with at most 2 fractional digits, new Salary(a)
\* succeeds, and getAmount() and toJSON() of the result both equal a.
C5_ValidAmountRoundTrips ==
    ( /\ call.op = "new Salary"
      /\ NumGt(call.arg, Zero)
      /\ FractionDigits(call.arg) <= 2 )
    => /\ ReturnedNew("Salary")
       /\ NumEq(getAmount(Returned), call.arg)
       /\ NumEq(salaryToJSON(Returned), call.arg)

\* C6: new Salary(a) fails with the negative error for every a < 0 (also
\* an over-precise one), with the zero error for a = 0, and with the
\* precision error for every a > 0 with more than 2 fractional digits.
C6_InvalidAmountsFailInOrder ==
    call.op = "new Salary"
    => /\ NumLt(call.arg, Zero) => call.thrown = SalaryNegative
       /\ NumEq(call.arg, Zero) => call.thrown = SalaryZero
       /\ (NumGt(call.arg, Zero) /\ FractionDigits(call.arg) > 2)
             => call.thrown = SalaryTooPrecise

C8_SubtractValidatesAndSubtracts ==
    call.op = "subtractAmount"
    => /\ (NumLt(call.arg, Zero) \/ FractionDigits(call.arg) > 2)
             => call.thrown # NoError
       /\ (FractionDigits(call.arg) <= 2 /\ NumGt(call.arg, getAmount(Receiver)))
             => call.thrown = SalaryNegative
       /\ NumEq(call.arg, Zero)
             => ReturnedNew("Salary") /\ salaryIsEqualTo(Returned, Receiver)
       /\ ( /\ NumLe(Zero, call.arg)
            /\ FractionDigits(call.arg) <= 2
            /\ NumLt(call.arg, getAmount(Receiver)) )
             => /\ ReturnedNew("Salary")
                /\ DecimalSumIs(getAmount(Receiver), getAmount(Returned), call.arg)

\* C9: increaseByPercentage(pct) fails with the not-positive error for
\* every pct <= 0 and with the out-of-range error for every pct > 100;
\* when it returns an instance, that instance's amount is the receiver's
\* amount plus amount * pct / 100.
C9_IncreaseChecksAndComputes ==
    call.op = "increaseByPercentage"
    => /\ NumLe(call.arg, Zero) => call.thrown = PercentageNotPositive
       /\ NumGt(call.arg, Hundred) => call.thrown = PercentageOutOfRange
       /\ call.thrown = NoError
             => /\ ReturnedNew("Salary")
                /\ DecimalIncreaseIs(getAmount(Returned), getAmount(Receiver), call.arg)

\* C10 as stated: for every instance and every pct with 0 < pct <= 100,
\* increaseByPercentage returns a new validated instance; it never fails
\* with an error about the amount.
C10_IncreaseInRangeReturns ==
    ( /\ call.op = "increaseByPercentage"
      /\ NumGt(call.arg, Zero)
      /\ NumLe(call.arg, Hundred) )
    => ReturnedNew("Salary") /\ validateAmount(getAmount(Returned)) = NoError

\* C10 as amended: for every instance and every pct with 0 < pct <= 100,
\* increaseByPercentage either returns a new validated instance or fails
\* with the precision error that validating the computed amount raises; it
\* fails with no other error.
C10_IncreaseInRangeReturnsOrTooPrecise ==
    ( /\ call.op = "increaseByPercentage"
      /\ NumGt(call.arg, Zero)
      /\ NumLe(call.arg, Hundred) )
    => \/ ReturnedNew("Salary") /\ validateAmount(getAmount(Returned)) = NoError
       \/ call.thrown = SalaryTooPrecise /\ call.returned = 0

\* new Salary(0.01).increaseByPercentage(10) failed with the precision error
C10_IncreaseFailedTooPrecise ==
    /\ call.op = "increaseByPercentage"
    /\ call.arg = FromDecimal(FALSE, 10, 0)
    /\ getAmount(Receiver) = FromDecimal(FALSE, 1, -2)
    /\ call.thrown = SalaryTooPrecise

\* the methods of Salary that derive a new amount
DerivingMethods == {"addAmount", "subtractAmount", "increaseByPercentage"}

\* C11: addAmount, subtractAmount and increaseByPercentage never change
\* the receiver: over every call, failed or not, every object keeps the
\* value it was created with, and the result of a successful call is an
\* instance that did not exist before, distinct from the receiver; new
\* Salary(5000).addAmount(1000) holds 6000 while the original holds 5000.
C11_ReceiverNeverChanges ==
    /\ [][ /\ \A i \in DOMAIN heap : i \in DOMAIN heap' /\ heap'[i] = heap[i]
           /\ (call'.op \in DerivingMethods /\ call'.thrown = NoError)
                 => /\ call'.returned \in DOMAIN heap' \ DOMAIN heap
                    /\ call'.returned # call'.this ]_vars
    /\ []( ( /\ call.op = "addAmount"
             /\ call.arg = FromDecimal(FALSE, 1000, 0)
             /\ call.this \in DOMAIN heap
             /\ getAmount(Receiver) = FromDecimal(FALSE, 5000, 0) )
           => /\ ReturnedNew("Salary")
              /\ getAmount(Returned) = FromDecimal(FALSE, 6000, 0) )

\* new Salary(5000).addAmount(1000) returned a second object holding 6000
\* and the first still holds 5000
C11_RaiseLeftOriginal ==
    /\ call.op = "addAmount"
    /\ call.arg = FromDecimal(FALSE, 1000, 0)
    /\ call.thrown = NoError
    /\ call.returned # call.this
    /\ getAmount(Receiver) = FromDecimal(FALSE, 5000, 0)
    /\ getAmount(Returned) = FromDecimal(FALSE, 6000, 0)

EmployeeRegistrations == {i \in DOMAIN heap : heap[i].class = "EmployeeRegistration"}

\* C12: isEqualTo of both value objects is structural: for all constructed
\* x and y of the same class, x.isEqualTo(y) is true exactly when they hold
\* the same value, so that x.isEqualTo(x) is true, x.isEqualTo(y) and
\* y.isEqualTo(x) agree, and two instances created separately with the
\* same value are equal.
C12_EqualityIsStructural ==
    /\ \A i \in Salaries : \A j \in Salaries :
          /\ salaryIsEqualTo(heap[i], heap[j]) <=> (getAmount(heap[i]) = getAmount(heap[j]))
          /\ salaryIsEqualTo(heap[i], heap[i])
          /\ salaryIsEqualTo(heap[i], heap[j]) <=> salaryIsEqualTo(heap[j], heap[i])
    /\ \A i \in EmployeeRegistrations : \A j \in EmployeeRegistrations :
          /\ registrationIsEqualTo(heap[i], heap[j]) <=> (getValue(heap[i]) = getValue(heap[j]))
          /\ registrationIsEqualTo(heap[i], heap[i])
          /\ registrationIsEqualTo(heap[i], heap[j])
                <=> registrationIsEqualTo(heap[j], heap[i])

\* C13: subtractAmount(delta) with delta equal to the receiver's amount
\* never returns an instance holding 0: the negative check does not fire,
\* validating the difference rejects it, and the call fails with the zero
\* error.
C13_SubtractingAllFailsWithZero ==
    /\ (call.op = "subtractAmount" /\ call.thrown = NoError)
          => ~IsZero(getAmount(Returned))
    /\ (call.op = "subtractAmount" /\ NumEq(call.arg, getAmount(Receiver)))
          => call.thrown = SalaryZero /\ call.returned = 0

\* C14: new EmployeeRegistration applies its checks in the order
\* positivity, length of the string of the number, integrality, and
\* reports the first one violated only: a number <= 0 fails with the
\* not-positive error also when it is not an integer or its string has a
\* wrong length, a positive number whose string has fewer than 5 or more
\* than 6 characters fails with the length error also when it is not an
\* integer, and the not-an-integer error is left to the positive
\* non-integers whose string has 5 or 6 characters.
C14_FirstViolatedCheckReported ==
    call.op = "new EmployeeRegistration"
    => /\ NumLe(call.arg, Zero) => call.thrown = RegistrationNotPositive
       /\ (~NumLe(call.arg, Zero) /\ Len(NumberToString(call.arg)) \notin 5..6)
             => call.thrown = RegistrationBadLength
       /\ ( /\ ~NumLe(call.arg, Zero)
            /\ Len(NumberToString(call.arg)) \in 5..6
            /\ ~IsInteger(call.arg) )
             => call.thrown = RegistrationNotInteger
       /\ call.thrown \in {RegistrationNotPositive, RegistrationBadLength,
                            RegistrationNotInteger}
             => call.returned = 0

\* new EmployeeRegistration(-1.5), which violates all three checks, failed
\* with the not-positive error
C14_NegativeFractionFailedNotPositive ==
    /\ call.op = "new EmployeeRegistration"
    /\ call.arg = FromDecimal(TRUE, 15, -1)
    /\ ~IsInteger(call.arg)
    /\ Len(NumberToString(call.arg)) \notin 5..6
    /\ call.thrown = RegistrationNotPositive

=============================================================================
